---------------------------- MODULE Spec2Model ----------------------------
(***************************************************************************)
(* Model of the PiCarX navigation decision core.                           *)
(*                                                                         *)
(*  - Spec     : the line-tracking control loop of main.py (line_track,    *)
(*               avoid_obstacles, get_status, outHandle) together with     *)
(*               the shared running flag and its shutdown path.            *)
(*  - FairSpec : Spec with weak fairness on the steps the control loop     *)
(*               keeps executing, for the termination properties.          *)
(*  - SpecNav  : the two processes of PiCarXController (vision_process,    *)
(*               navigation_process) with their queues, the Navigator      *)
(*               state machine and the MotorController it drives.          *)
(*                                                                         *)
(* Units.  The ultrasonic reading is a real number of centimetres; it is   *)
(* modelled in thousandths of a centimetre.  avoid_obstacles rounds it to  *)
(* two decimals, so every distance the code compares is modelled in        *)
(* hundredths of a centimetre (Cm(40) is 40.00 cm).                        *)
(***************************************************************************)
EXTENDS Integers, Sequences, FiniteSets, TLC

(***************************************************************************)
(* Program constants.                                                      *)
(***************************************************************************)
LINE_TRACK_SPEED == 10

LINE_TRACK_ANGLE_OFFSET == 20

AVOID_OBSTACLES_SPEED == 40

SafeDistance == 40

DangerDistance == 20

\* sanity ceiling of avoid_obstacles' validity test (distance > 1000)
SanityCeiling == 1000

\* steering magnitude used by avoid_obstacles and outHandle (30 / -30)
EXTREME_ANGLE == 30

\* backward speed of outHandle (px.backward(10))
OUT_HANDLE_SPEED == 10

\* a length in centimetres, in the hundredths the rounded distance is held in
Cm(n) == n * 100

VARIABLES
    pc,               \* control loop position: "idle" between two line_track
                      \* calls, "recover" inside the polling loop of outHandle
    last_line_state,  \* main's last_line_state
    running,          \* the shared running flag (PiCarXController.running)
    tick_rd,          \* what px.ultrasonic.read() did in the latest tick
    tick_distance,    \* the rounded distance of the latest tick (hundredths)
    tick_band,        \* the branch avoid_obstacles took in the latest tick
    tick_ret,         \* the value avoid_obstacles returned to line_track
    tick_reading,     \* the line reading present at the latest sampling point
    tick_sampled,     \* whether the latest tick read the line sensor
    tick_gm,          \* the latest classification get_status returned
    tick_cmds,        \* the directives issued to px during the latest tick
    tick_entry_last,  \* last_line_state on entry to the latest tick
    tick_recovered,   \* the latest tick went through outHandle and returned
    tick_repeat,      \* the latest tick's ultrasonic read did the same as that
                      \* of the tick before it
    prev_avoid,       \* the arbiter's directives of the tick before the latest
    nav_pc,           \* navigation_process: "top" (loop test), "vision",
                      \* "command", "update", "exited"
    vis_pc,           \* vision_process: "loop" or "exited"
    vision_queue,     \* PiCarXController.vision_queue
    command_queue,    \* PiCarXController.command_queue
    state,            \* Navigator.state
    last_line_pos,    \* Navigator.last_line_pos
    motor,            \* the MotorController and the px it commands
    nav_acts,         \* the calls made in the current navigation iteration
    nav_seen,         \* the snapshot received in the current navigation
                      \* iteration: <<>> or <<snapshot>>
    nav_state0,       \* Navigator.state when that snapshot was received
    nav_after_stop,   \* steps navigation_process has taken since the flag
                      \* was cleared
    mc_call           \* the latest call made directly on the MotorController
                      \* and how it ended

\* the line-tracking loop of main.py
trackvars == <<pc, last_line_state, tick_rd, tick_distance, tick_band,
               tick_ret, tick_reading, tick_sampled, tick_gm, tick_cmds,
               tick_entry_last, tick_recovered, tick_repeat, prev_avoid>>

\* the processes of PiCarXController
navvars == <<nav_pc, vis_pc, vision_queue, command_queue, state,
             last_line_pos, motor, nav_acts, nav_seen, nav_state0,
             nav_after_stop>>

vars == <<trackvars, navvars, running, mc_call>>

(***************************************************************************)
(* Inputs.                                                                 *)
(***************************************************************************)
\* Raw ultrasonic readings, in thousandths of a centimetre: sensor error codes
\* (-1), values just around 0, around both thresholds and around the ceiling.
\* None of them lies on a rounding tie.
RawSamples ==
    { -1000, -6, -4, 0, 15000, 19994, 19996, 20000, 39994, 39996, 40000,
      100000, 1000004, 1000006 }

\* px.ultrasonic.read() either returns a number or raises.
Reads ==
    { [ok |-> TRUE, raw |-> r] : r \in RawSamples } \cup { [ok |-> FALSE, raw |-> 0] }

NoRead == [ok |-> FALSE, raw |-> -1]

\* px.get_line_status(): three binary values (left, center, right)
Bit == {0, 1}

Readings == Bit \X Bit \X Bit

(***************************************************************************)
(* round(x, 2): nearest hundredth, an exact tie going to the even          *)
(* neighbour.  The argument is in thousandths, the result in hundredths.   *)
(***************************************************************************)
Round2(t) ==
    LET q == t \div 10
        r == t % 10
    IN  IF r < 5 THEN q
        ELSE IF r > 5 THEN q + 1
        ELSE IF q % 2 = 0 THEN q ELSE q + 1

\* one steering-and-speed pair sent to px; a negative speed is px.backward
Directive(by, angle, speed) == [by |-> by, angle |-> angle, speed |-> speed]

(***************************************************************************)
(* get_status: the classification of a three-bit line status.  The Python  *)
(* function falls off its if/elif chain (returning None) when no branch    *)
(* matches; "none" stands for that.                                        *)
(***************************************************************************)
get_status_no_right_branch(_state) ==
    IF _state = <<0, 0, 0>> THEN "stop"
    ELSE IF _state[2] = 1 THEN "forward"
    ELSE IF _state[1] = 1 THEN "right"
    ELSE "none"

get_status_left_first(_state) ==
    IF _state = <<0, 0, 0>> THEN "stop"
    ELSE IF _state[1] = 1 THEN "right"
    ELSE IF _state[2] = 1 THEN "forward"
    ELSE IF _state[3] = 1 THEN "left"
    ELSE "none"

get_status(_state) ==
    IF _state = <<0, 0, 0>> THEN "stop"
    ELSE IF _state[2] = 1 THEN "forward"
    ELSE IF _state[1] = 1 THEN "right"
    ELSE IF _state[3] = 1 THEN "left"
    ELSE "none"

(***************************************************************************)
(* avoid_obstacles: the result of one call, given what the ultrasonic read *)
(* did.  band names the branch taken, cmds the directives sent to px, ret  *)
(* the value handed back to line_track.  The servo and motor calls of px   *)
(* are taken to return normally; only the read may raise.                  *)
(***************************************************************************)
ArbiterResult(distance, band, cmds, ret) ==
    [distance |-> distance, band |-> band, cmds |-> cmds, ret |-> ret]

avoid_obstacles_strict_thresholds(rd) ==
    IF ~rd.ok
    THEN ArbiterResult(0, "Fault", <<>>, Cm(SafeDistance + 1))
    ELSE LET distance == Round2(rd.raw) IN
         IF distance < 0 \/ distance > Cm(SanityCeiling)
         THEN ArbiterResult(distance, "Invalid", <<>>, Cm(SafeDistance + 1))
         ELSE IF distance > Cm(SafeDistance)
         THEN ArbiterResult(distance, "Safe",
                  <<Directive("avoid", 0, AVOID_OBSTACLES_SPEED)>>, distance)
         ELSE IF distance > Cm(DangerDistance)
         THEN ArbiterResult(distance, "Caution",
                  <<Directive("avoid", EXTREME_ANGLE, AVOID_OBSTACLES_SPEED)>>, distance)
         ELSE ArbiterResult(distance, "Danger",
                  <<Directive("avoid", -EXTREME_ANGLE, -AVOID_OBSTACLES_SPEED)>>, distance)

avoid_obstacles_fail_closed(rd) ==
    IF ~rd.ok
    THEN ArbiterResult(0, "Fault", <<>>, 0)
    ELSE LET distance == Round2(rd.raw) IN
         IF distance < 0 \/ distance > Cm(SanityCeiling)
         THEN ArbiterResult(distance, "Invalid", <<>>, 0)
         ELSE IF distance >= Cm(SafeDistance)
         THEN ArbiterResult(distance, "Safe",
                  <<Directive("avoid", 0, AVOID_OBSTACLES_SPEED)>>, distance)
         ELSE IF distance >= Cm(DangerDistance)
         THEN ArbiterResult(distance, "Caution",
                  <<Directive("avoid", EXTREME_ANGLE, AVOID_OBSTACLES_SPEED)>>, distance)
         ELSE ArbiterResult(distance, "Danger",
                  <<Directive("avoid", -EXTREME_ANGLE, -AVOID_OBSTACLES_SPEED)>>, distance)

avoid_obstacles_danger_forward(rd) ==
    IF ~rd.ok
    THEN ArbiterResult(0, "Fault", <<>>, Cm(SafeDistance + 1))
    ELSE LET distance == Round2(rd.raw) IN
         IF distance < 0 \/ distance > Cm(SanityCeiling)
         THEN ArbiterResult(distance, "Invalid", <<>>, Cm(SafeDistance + 1))
         ELSE IF distance >= Cm(SafeDistance)
         THEN ArbiterResult(distance, "Safe",
                  <<Directive("avoid", 0, AVOID_OBSTACLES_SPEED)>>, distance)
         ELSE IF distance >= Cm(DangerDistance)
         THEN ArbiterResult(distance, "Caution",
                  <<Directive("avoid", EXTREME_ANGLE, AVOID_OBSTACLES_SPEED)>>, distance)
         ELSE ArbiterResult(distance, "Danger",
                  <<Directive("avoid", -EXTREME_ANGLE, AVOID_OBSTACLES_SPEED)>>, distance)

avoid_obstacles(rd) ==
    IF ~rd.ok
    THEN \* the read raised: except branch
         ArbiterResult(0, "Fault", <<>>, Cm(SafeDistance + 1))
    ELSE LET distance == Round2(rd.raw) IN
         IF distance < 0 \/ distance > Cm(SanityCeiling)
         THEN ArbiterResult(distance, "Invalid", <<>>, Cm(SafeDistance + 1))
         ELSE IF distance >= Cm(SafeDistance)
         THEN ArbiterResult(distance, "Safe",
                  <<Directive("avoid", 0, AVOID_OBSTACLES_SPEED)>>, distance)
         ELSE IF distance >= Cm(DangerDistance)
         THEN ArbiterResult(distance, "Caution",
                  <<Directive("avoid", EXTREME_ANGLE, AVOID_OBSTACLES_SPEED)>>, distance)
         ELSE ArbiterResult(distance, "Danger",
                  <<Directive("avoid", -EXTREME_ANGLE, -AVOID_OBSTACLES_SPEED)>>, distance)

(***************************************************************************)
(* line_track's test after avoid_obstacles: the tick returns at once, with *)
(* last_line_state untouched, when the distance handed back is below       *)
(* SafeDistance.                                                           *)
(***************************************************************************)
ObstacleReturn_danger_only(distance) == distance < Cm(DangerDistance)

\* a test that never returns early
ObstacleReturn_never(distance) == FALSE

ObstacleReturn(distance) == distance < Cm(SafeDistance)

(***************************************************************************)
(* The line-following branch of line_track for a classification other than *)
(* 'stop': the directive sent to px.                                       *)
(***************************************************************************)
follow_directive_forward_keeps_offset(gm_state) ==
    IF gm_state = "forward"
    THEN <<Directive("line", LINE_TRACK_ANGLE_OFFSET, LINE_TRACK_SPEED)>>
    ELSE IF gm_state = "left"
    THEN <<Directive("line", LINE_TRACK_ANGLE_OFFSET, LINE_TRACK_SPEED)>>
    ELSE IF gm_state = "right"
    THEN <<Directive("line", -LINE_TRACK_ANGLE_OFFSET, LINE_TRACK_SPEED)>>
    ELSE <<>>

follow_directive(gm_state) ==
    IF gm_state = "forward"
    THEN <<Directive("line", 0, LINE_TRACK_SPEED)>>
    ELSE IF gm_state = "left"
    THEN <<Directive("line", LINE_TRACK_ANGLE_OFFSET, LINE_TRACK_SPEED)>>
    ELSE IF gm_state = "right"
    THEN <<Directive("line", -LINE_TRACK_ANGLE_OFFSET, LINE_TRACK_SPEED)>>
    ELSE <<>>

(***************************************************************************)
(* outHandle, before its polling loop: the directive chosen from the last  *)
(* line state.                                                             *)
(***************************************************************************)
outHandle_entry_same_side(last) ==
    IF last = "left"
    THEN <<Directive("recover", EXTREME_ANGLE, -OUT_HANDLE_SPEED)>>
    ELSE IF last = "right"
    THEN <<Directive("recover", -EXTREME_ANGLE, -OUT_HANDLE_SPEED)>>
    ELSE <<>>

outHandle_entry(last) ==
    IF last = "left"
    THEN <<Directive("recover", -EXTREME_ANGLE, -OUT_HANDLE_SPEED)>>
    ELSE IF last = "right"
    THEN <<Directive("recover", EXTREME_ANGLE, -OUT_HANDLE_SPEED)>>
    ELSE <<>>

\* outHandle's loop test: the loop is left when this holds
outHandle_break(gm_state, last) == gm_state # last


\* the directives of a tick that avoid_obstacles issued
ByArbiter(cmds) == SelectSeq(cmds, LAMBDA c : c.by = "avoid")

(***************************************************************************)
(* MotorController.                                                        *)
(*                                                                         *)
(* Speeds are floats that stop() multiplies by 0.8 again and again.  A     *)
(* speed is held exactly as [n, k], standing for n * (4/5)^k; a motor      *)
(* channel value as [n, k, pct], standing for n * (4/5)^k * pct / 100      *)
(* (set_steering scales one channel by (100 - |angle|) / 100).             *)
(***************************************************************************)
MAX_SPEED == 50

MAX_STEERING == 30

\* threshold of the deceleration loop of stop() (abs(current_speed) > 5)
RAMP_FLOOR == 5

RECURSIVE Pow(_, _)
Pow(b, k) == IF k = 0 THEN 1 ELSE b * Pow(b, k - 1)

Abs(x) == IF x < 0 THEN -x ELSE x

Q(v) == [n |-> v, k |-> 0]

QNeg(q) == [n |-> -q.n, k |-> q.k]

\* q > c for a speed q and an integer c >= 0.  As (4/5)^k <= 1, n <= c
\* settles it without the powers (which would leave the integer range).
QGt(q, c) ==
    IF q.n <= c THEN FALSE
    ELSE q.n * Pow(4, q.k) > c * Pow(5, q.k)

\* q < -c for an integer c >= 0
QLtNeg(q, c) == QGt(QNeg(q), c)

\* abs(q) > c
QAbsGt(q, c) == QGt(q, c) \/ QLtNeg(q, c)

\* q * 0.8
Times08(q) == [n |-> q.n, k |-> q.k + 1]

\* max(min(q, limit), -limit)
ClampQ(q, limit) ==
    IF QGt(q, limit) THEN Q(limit)
    ELSE IF QLtNeg(q, limit) THEN Q(-limit)
    ELSE q

\* an angle passed on as requested
ClampInt_as_requested(a, limit) == a

ClampInt(a, limit) ==
    IF a > limit THEN limit
    ELSE IF a < -limit THEN -limit
    ELSE a

\* a motor channel value: the speed q scaled by pct / 100
Chan(q, pct) == [n |-> q.n, k |-> q.k, pct |-> pct]

ChanZero == Chan(Q(0), 100)

\* MotorController.__init__: both motors stopped, speed and steering 0
MotorInit ==
    [current_speed |-> Q(0), current_steering |-> 0,
     m1 |-> ChanZero, m2 |-> ChanZero, servo |-> 0]

\* MotorController.set_speed(speed)
set_speed(mc, speed) ==
    LET s == ClampQ(speed, MAX_SPEED)
    IN  [mc EXCEPT !.m1 = Chan(s, 100),
                   !.m2 = Chan(QNeg(s), 100),
                   !.current_speed = s]

\* MotorController.set_steering(angle)
set_steering(mc, angle) ==
    LET a == ClampInt(angle, MAX_STEERING)
        cs == mc.current_speed
        power == 100 - Abs(a)
        m == [mc EXCEPT !.servo = a, !.current_steering = a]
    IN  IF cs.n # 0
        THEN IF a > 0
             THEN [m EXCEPT !.m1 = Chan(cs, 100), !.m2 = Chan(QNeg(cs), power)]
             ELSE [m EXCEPT !.m1 = Chan(cs, power), !.m2 = Chan(QNeg(cs), 100)]
        ELSE m

\* the deceleration loop of stop()
RECURSIVE stop_ramp(_)
stop_ramp(mc) ==
    IF QAbsGt(mc.current_speed, RAMP_FLOOR)
    THEN stop_ramp(set_speed(mc, Times08(mc.current_speed)))
    ELSE mc

\* MotorController.stop(): the loop, px.stop(), set_steering(0), speed 0
stop(mc) ==
    LET ramped == stop_ramp(mc)
        halted == [ramped EXCEPT !.m1 = ChanZero, !.m2 = ChanZero]
        steered == set_steering(halted, 0)
    IN  [steered EXCEPT !.current_speed = Q(0)]

\* MotorController.emergency_stop()
emergency_stop(mc) ==
    [mc EXCEPT !.m1 = ChanZero, !.m2 = ChanZero,
               !.current_speed = Q(0), !.current_steering = 0]

(***************************************************************************)
(* The MotorController called directly, with a px that may fail.  px names *)
(* the primitive of the Picarx object that raises whenever it is called    *)
(* during the call: "set_motor_speed", "set_dir_servo_angle", "stop", or   *)
(* "ok" for none.  Each operator gives the controller after the call and   *)
(* how the call ended: whether an error was logged, whether                *)
(* emergency_stop() ran, whether an exception reached the caller, and      *)
(* whether the call never returned.                                        *)
(***************************************************************************)
PxFaults == {"ok", "set_motor_speed", "set_dir_servo_angle", "stop"}

Outcome(mc, logged, emergency, raised, hung) ==
    [mc |-> mc, logged |-> logged, emergency |-> emergency,
     raised |-> raised, hung |-> hung]

\* the call returned without an error
Returned(mc) == Outcome(mc, FALSE, FALSE, FALSE, FALSE)

\* an except branch logged the error and the call returned
LoggedOnly(mc) == Outcome(mc, TRUE, FALSE, FALSE, FALSE)

\* set_speed(speed): the first px.set_motor_speed raises before anything is
\* set; the except branch logs
call_set_speed(mc, speed, px) ==
    IF px = "set_motor_speed" THEN LoggedOnly(mc)
    ELSE Returned(set_speed(mc, speed))

\* set_steering(angle): px.set_dir_servo_angle raises before current_steering
\* is assigned; px.set_motor_speed raises after it, when current_speed # 0
call_set_steering(mc, angle, px) ==
    IF px = "set_dir_servo_angle" THEN LoggedOnly(mc)
    ELSE IF px = "set_motor_speed"
    THEN LET a == ClampInt(angle, MAX_STEERING)
             m == [mc EXCEPT !.servo = a, !.current_steering = a]
         IN  IF mc.current_speed.n # 0 THEN LoggedOnly(m) ELSE Returned(m)
    ELSE Returned(set_steering(mc, angle))

\* emergency_stop(): px.stop() raises before the two attributes are reset
call_emergency_stop(mc, px) ==
    IF px = "stop" THEN LoggedOnly(mc)
    ELSE Returned(emergency_stop(mc))

\* stop().  With px.set_motor_speed failing, set_speed logs and leaves
\* current_speed as it is, so the loop `while abs(current_speed) > 5` never
\* ends; below that speed the loop is skipped and set_steering(0) logs the
\* failure.  With px.set_dir_servo_angle failing, set_steering(0) logs and
\* leaves servo and current_steering.  With px.stop failing, the except
\* branch of stop() logs and calls emergency_stop(), whose px.stop() fails too.
call_stop(mc, px) ==
    IF px = "set_motor_speed"
    THEN IF QAbsGt(mc.current_speed, RAMP_FLOOR)
         THEN Outcome(mc, TRUE, FALSE, FALSE, TRUE)
         ELSE Outcome([mc EXCEPT !.m1 = ChanZero, !.m2 = ChanZero, !.servo = 0,
                                 !.current_steering = 0, !.current_speed = Q(0)],
                      mc.current_speed.n # 0, FALSE, FALSE, FALSE)
    ELSE IF px = "set_dir_servo_angle"
    THEN LoggedOnly([stop_ramp(mc) EXCEPT !.m1 = ChanZero, !.m2 = ChanZero,
                                          !.current_speed = Q(0)])
    ELSE IF px = "stop"
    THEN Outcome(call_emergency_stop(stop_ramp(mc), px).mc, TRUE, TRUE, FALSE, FALSE)
    ELSE Returned(stop(mc))

\* no call has been made directly on the MotorController
NoCall ==
    [op |-> "none", arg |-> 0, px |-> "ok", logged |-> FALSE,
     emergency |-> FALSE, raised |-> FALSE, hung |-> FALSE]

(***************************************************************************)
(* Navigator.  Its methods are applied to a context c: the navigator's     *)
(* state and last_line_pos, the motor controller mc, and the calls made so *)
(* far in this iteration (acts).                                           *)
(***************************************************************************)
BASE_SPEED == 30

MIN_SPEED == 15

NAV_MAX_STEERING == 30

\* frame width follow_line assumes
FRAME_WIDTH == 640

\* angles handle_sign asks of handle_turn_sign (-90 / 90)
TURN_ANGLE == 90

\* time.sleep of handle_stop_sign and of handle_turn_sign, in seconds
STOP_DWELL == 2

TURN_HOLD == 1

\* Navigator.last_line_pos is None
NoPos == -1

Call(name, arg) == [call |-> name, arg |-> arg]

Did(c, name, arg) == [c EXCEPT !.acts = Append(@, Call(name, arg))]

\* motor_controller.set_speed(v), set_steering(a), stop() as the navigator calls them
NavSetSpeed(c, v) == [Did(c, "set_speed", v) EXCEPT !.mc = set_speed(c.mc, Q(v))]

NavSetSteering(c, a) == [Did(c, "set_steering", a) EXCEPT !.mc = set_steering(c.mc, a)]

NavStop(c) == [Did(c, "stop", 0) EXCEPT !.mc = stop(c.mc)]

\* Navigator.follow_line(line_info); position is the x of the line centre.
\* error = (x - 320) / 320, steering = -error * 30, speed = 30 * (1 - |error|)
follow_line(c0, line_info) ==
    LET c == Did(c0, "follow_line", 0) IN
    IF ~line_info.detected
    THEN IF c.last_line_pos # NoPos
         THEN NavSetSpeed(c, MIN_SPEED)
         ELSE NavStop(c)
    ELSE LET half == FRAME_WIDTH \div 2
             dx == line_info.position - half
             steering_angle == (-dx * NAV_MAX_STEERING) \div half
             speed == (BASE_SPEED * (half - Abs(dx))) \div half
             c1 == NavSetSteering(c, steering_angle)
             c2 == NavSetSpeed(c1, IF speed > MIN_SPEED THEN speed ELSE MIN_SPEED)
         IN  [c2 EXCEPT !.last_line_pos = line_info.position]

\* what goes wrong inside a sign maneuver: nothing, the first call on
\* motor_controller raises, or time.sleep raises.  (MotorController's own
\* methods catch what px raises; the navigator takes whatever motor
\* controller object its constructor is given.)
Faults == {"none", "motor", "sleep"}

\* self.state = s
SetState(c, s) == [Did(c, s, 0) EXCEPT !.state = s]

\* a stop-sign reaction that leaves the navigator in ARRET
handle_stop_sign_ends_stopped(c0, fault) ==
    LET c == Did(c0, "handle_stop_sign", 0) IN
    IF fault = "motor" THEN Did(c, "error_stop_sign", 0)
    ELSE LET c1 == NavStop(c) IN
         IF fault = "sleep" THEN Did(c1, "error_stop_sign", 0)
         ELSE SetState(Did(c1, "sleep", STOP_DWELL), "ARRET")

\* a stop-sign reaction that goes back to SUIVRE_LIGNE before the dwell
handle_stop_sign_return_before_dwell(c0, fault) ==
    LET c == Did(c0, "handle_stop_sign", 0) IN
    IF fault = "motor" THEN Did(c, "error_stop_sign", 0)
    ELSE LET c1 == SetState(NavStop(c), "SUIVRE_LIGNE") IN
         IF fault = "sleep" THEN Did(c1, "error_stop_sign", 0)
         ELSE Did(c1, "sleep", STOP_DWELL)

\* Navigator.handle_stop_sign(); its except branch writes a log line only
handle_stop_sign(c0, fault) ==
    LET c == Did(c0, "handle_stop_sign", 0) IN
    IF fault = "motor" THEN Did(c, "error_stop_sign", 0)
    ELSE LET c1 == NavStop(c) IN
         IF fault = "sleep" THEN Did(c1, "error_stop_sign", 0)
         ELSE SetState(Did(c1, "sleep", STOP_DWELL), "SUIVRE_LIGNE")

handle_turn_sign_no_reset(c0, angle, fault) ==
    LET c == Did(c0, "handle_turn_sign", angle) IN
    IF fault = "motor" THEN NavStop(Did(c, "error_turn_sign", 0))
    ELSE LET c1 == NavSetSpeed(c, MIN_SPEED)
             c2 == NavSetSteering(c1, angle)
         IN  IF fault = "sleep" THEN NavStop(Did(c2, "error_turn_sign", 0))
             ELSE SetState(Did(c2, "sleep", TURN_HOLD), "SUIVRE_LIGNE")

\* Navigator.handle_turn_sign(angle); its except branch writes a log line
\* and calls motor_controller.stop()
handle_turn_sign(c0, angle, fault) ==
    LET c == Did(c0, "handle_turn_sign", angle) IN
    IF fault = "motor" THEN NavStop(Did(c, "error_turn_sign", 0))
    ELSE LET c1 == NavSetSpeed(c, MIN_SPEED)
             c2 == NavSetSteering(c1, angle)
         IN  IF fault = "sleep" THEN NavStop(Did(c2, "error_turn_sign", 0))
             ELSE SetState(NavSetSteering(Did(c2, "sleep", TURN_HOLD), 0),
                           "SUIVRE_LIGNE")

\* Navigator.handle_sign(sign_info).  A sign record without a 'class' key
\* ("missing") makes sign_info['class'] raise KeyError, which the except
\* branch answers by a log line and by going back to SUIVRE_LIGNE.  The
\* maneuvers catch their own exceptions, so none reaches this except branch.
handle_sign(c0, sign_info, fault) ==
    LET c == SetState(Did(c0, "handle_sign", 0), "TRAITER_PANNEAU") IN
    IF sign_info.class = "missing"
    THEN SetState(Did(c, "error_handle_sign", 0), "SUIVRE_LIGNE")
    ELSE IF sign_info.class = "STOP" THEN handle_stop_sign(c, fault)
    ELSE IF sign_info.class = "GAUCHE" THEN handle_turn_sign(c, -TURN_ANGLE, fault)
    ELSE IF sign_info.class = "DROITE" THEN handle_turn_sign(c, TURN_ANGLE, fault)
    ELSE c

\* Navigator.update_from_vision(vision_data)
update_from_vision(c0, vision_data, fault) ==
    LET c == Did(c0, "update_from_vision", 0) IN
    IF vision_data.signs # <<>> /\ c.state # "TRAITER_PANNEAU"
    THEN handle_sign(c, vision_data.signs[1], fault)
    ELSE IF c.state = "SUIVRE_LIGNE"
    THEN follow_line(c, vision_data.line_info)
    ELSE c

\* a command handler whose stop command also puts the navigator in ARRET
handle_command_stop_sets_state(c0, command) ==
    LET c == Did(c0, "handle_command", 0) IN
    IF command.type = "speed" THEN NavSetSpeed(c, command.value)
    ELSE IF command.type = "turn" THEN NavSetSteering(c, command.value)
    ELSE IF command.type = "stop" THEN SetState(NavStop(c), "ARRET")
    ELSE c

\* Navigator.handle_command(command)
handle_command(c0, command) ==
    LET c == Did(c0, "handle_command", 0) IN
    IF command.type = "speed" THEN NavSetSpeed(c, command.value)
    ELSE IF command.type = "turn" THEN NavSetSteering(c, command.value)
    ELSE IF command.type = "stop" THEN NavStop(c)
    ELSE c

\* Navigator.update()
update(c0) ==
    LET c == Did(c0, "update", 0) IN
    IF c.state = "ARRET" THEN NavStop(c) ELSE c

(***************************************************************************)
(* Initial state: main() before the first line_track call; the running     *)
(* flag, the queues, the Navigator and the MotorController as              *)
(* PiCarXController.__init__ creates them.                                 *)
(***************************************************************************)
Init ==
    /\ pc = "idle"
    /\ last_line_state = "forward"
    /\ running = TRUE
    /\ tick_rd = NoRead
    /\ tick_distance = 0
    /\ tick_band = "none"
    /\ tick_ret = 0
    /\ tick_reading = <<0, 0, 0>>
    /\ tick_sampled = FALSE
    /\ tick_gm = "unsampled"
    /\ tick_cmds = <<>>
    /\ tick_entry_last = "forward"
    /\ tick_recovered = FALSE
    /\ tick_repeat = FALSE
    /\ prev_avoid = <<>>
    /\ nav_pc = "top"
    /\ vis_pc = "loop"
    /\ vision_queue = <<>>
    /\ command_queue = <<>>
    /\ state = "SUIVRE_LIGNE"
    /\ last_line_pos = NoPos
    /\ motor = MotorInit
    /\ nav_acts = <<>>
    /\ nav_seen = <<>>
    /\ nav_state0 = "none"
    /\ nav_after_stop = 0
    /\ mc_call = NoCall

(***************************************************************************)
(* line_track(px, last_line_state): one control tick, up to its return or  *)
(* up to the polling loop of outHandle.  rd is what the ultrasonic read    *)
(* does in this tick, reading the line status present during it.           *)
(***************************************************************************)
LineTrack(rd, reading) ==
    /\ pc = "idle"
    /\ LET ao == avoid_obstacles(rd)
           gm == get_status(reading)
       IN  /\ tick_rd' = rd
           /\ tick_distance' = ao.distance
           /\ tick_band' = ao.band
           /\ tick_ret' = ao.ret
           /\ tick_reading' = reading
           /\ tick_entry_last' = last_line_state
           /\ tick_recovered' = FALSE
           /\ tick_repeat' = (rd = tick_rd)
           /\ prev_avoid' = ByArbiter(tick_cmds)
           /\ IF ObstacleReturn(ao.ret)
              THEN \* return last_line_state, the line sensor is not read
                   /\ tick_sampled' = FALSE
                   /\ tick_gm' = "unsampled"
                   /\ tick_cmds' = ao.cmds
                   /\ UNCHANGED <<pc, last_line_state>>
              ELSE /\ tick_sampled' = TRUE
                   /\ tick_gm' = gm
                   /\ IF gm # "stop"
                      THEN /\ last_line_state' = gm
                           /\ tick_cmds' = ao.cmds \o follow_directive(gm)
                           /\ pc' = "idle"
                      ELSE \* outHandle, as far as its while loop
                           /\ tick_cmds' = ao.cmds \o outHandle_entry(last_line_state)
                           /\ pc' = "recover"
                           /\ UNCHANGED last_line_state
    /\ UNCHANGED <<running, navvars, mc_call>>

(***************************************************************************)
(* One iteration of outHandle's while loop: resample, classify, leave the  *)
(* loop when the classification differs from last_line_state; outHandle    *)
(* and line_track then return.  The running flag is not read.              *)
(***************************************************************************)
OutHandlePoll(reading) ==
    /\ pc = "recover"
    /\ LET gm == get_status(reading)
       IN  /\ tick_reading' = reading
           /\ tick_gm' = gm
           /\ IF outHandle_break(gm, last_line_state)
              THEN pc' = "idle" /\ tick_recovered' = TRUE
              ELSE pc' = "recover" /\ UNCHANGED tick_recovered
    /\ UNCHANGED <<last_line_state, running, tick_rd, tick_distance, tick_band,
                   tick_ret, tick_sampled, tick_cmds, tick_entry_last,
                   tick_repeat, prev_avoid, navvars, mc_call>>

(***************************************************************************)
(* The shutdown path: run() catches KeyboardInterrupt, clears the flag and  *)
(* goes on to cleanup() without waiting for the two processes.              *)
(***************************************************************************)
\* PiCarXController.cleanup() in the parent process: motor_controller.stop()
\* on the parent's MotorController, which was never driven (speed 0, steering
\* 0), then px.stop().  The motor channels and the servo are the robot's; the
\* current_speed and current_steering of the navigation process are its own.
cleanup(mc) ==
    LET parent == stop([mc EXCEPT !.current_speed = Q(0), !.current_steering = 0])
    IN  [mc EXCEPT !.m1 = ChanZero, !.m2 = ChanZero, !.servo = parent.servo]

\* a shutdown path that writes the flag whatever it holds
Shutdown_rewrite ==
    /\ running' = ~running
    /\ motor' = cleanup(motor)
    /\ UNCHANGED <<trackvars, mc_call, nav_pc, vis_pc, vision_queue, command_queue, state,
                   last_line_pos, nav_acts, nav_seen, nav_state0, nav_after_stop>>

Shutdown ==
    /\ running = TRUE
    /\ running' = FALSE
    /\ motor' = cleanup(motor)
    /\ UNCHANGED <<trackvars, mc_call, nav_pc, vis_pc, vision_queue, command_queue, state,
                   last_line_pos, nav_acts, nav_seen, nav_state0, nav_after_stop>>

Tick == \E rd \in Reads, reading \in Readings : LineTrack(rd, reading)

Poll == \E reading \in Readings : OutHandlePoll(reading)

Next ==
    \/ Tick
    \/ Poll
    \/ Shutdown

Spec == Init /\ [][Next]_vars

\* the control loop keeps executing its next statement
FairSpec == Spec /\ WF_vars(Tick) /\ WF_vars(Poll)

(***************************************************************************)
(* The processes of PiCarXController.                                      *)
(***************************************************************************)
\* bounds of the model on the two queues (mp.Queue() itself has no limit)
MaxQueue == 2

MaxCommands == 2

\* x of the line centre in a captured frame (320 wide); multiples of 32, for
\* which follow_line's steering and speed are whole numbers
Positions == {160, 288}

LineInfos ==
    { [detected |-> FALSE, position |-> NoPos] }
        \cup { [detected |-> TRUE, position |-> x] : x \in Positions }

\* contents of a sign record as handle_sign reads it: its 'class', or
\* "missing" for a record without that key, "AUTRE" for any other class
Sign(class) == [class |-> class]

SignLists ==
    { <<Sign("STOP")>>, <<Sign("GAUCHE")>>, <<Sign("DROITE")>>, <<Sign("AUTRE")>>,
      <<Sign("missing")>>, <<Sign("DROITE"), Sign("STOP")>> }

\* the dictionaries vision_process puts on vision_queue
Snapshots ==
    { [line_info |-> li, signs |-> <<>>] : li \in LineInfos }
        \cup { [line_info |-> [detected |-> FALSE, position |-> NoPos], signs |-> sl] :
                 sl \in SignLists }

\* the snapshots that travel through vision_queue in the two-process
\* specification: a line found, a STOP sign
QueuedSnapshots ==
    { [line_info |-> [detected |-> TRUE, position |-> 160], signs |-> <<>>],
      [line_info |-> [detected |-> FALSE, position |-> NoPos],
       signs |-> <<Sign("STOP")>>] }

\* the dictionaries an operator puts on command_queue
Commands ==
    { [type |-> "speed", value |-> 60], [type |-> "turn", value |-> 45],
      [type |-> "stop", value |-> 0] }

\* the commands that travel through command_queue in the two-process
\* specification
QueuedCommands ==
    { [type |-> "speed", value |-> 60], [type |-> "turn", value |-> 45] }

\* the navigator and motor controller as one context, and back
NavContext == [state |-> state, last_line_pos |-> last_line_pos,
               mc |-> motor, acts |-> nav_acts]

SetContext(c) ==
    /\ state' = c.state
    /\ last_line_pos' = c.last_line_pos
    /\ motor' = c.mc
    /\ nav_acts' = c.acts

\* vision_data = the snapshot received; navigator.update_from_vision(vision_data)
ReceiveSnapshot(snapshot, fault) ==
    /\ SetContext(update_from_vision(NavContext, snapshot, fault))
    /\ nav_seen' = <<snapshot>>
    /\ nav_state0' = state

\* a step of navigation_process, counted once the flag is cleared
NavStepCount ==
    nav_after_stop' = IF running THEN nav_after_stop ELSE nav_after_stop + 1

\* vision_process: one iteration of its loop while the flag is set.  A frame
\* that is None leads straight to the next iteration; otherwise the snapshot
\* is put on the queue, which takes it whatever it already holds.
VisionIterate(frame_ok, snapshot) ==
    /\ vis_pc = "loop"
    /\ running
    /\ Len(vision_queue) < MaxQueue
    /\ vision_queue' = IF frame_ok THEN Append(vision_queue, snapshot) ELSE vision_queue
    /\ UNCHANGED <<trackvars, mc_call, running, nav_pc, vis_pc, command_queue, state,
                   last_line_pos, motor, nav_acts, nav_seen, nav_state0,
                   nav_after_stop>>

\* vision_process: the loop test finds the flag cleared
VisionExit ==
    /\ vis_pc = "loop"
    /\ ~running
    /\ vis_pc' = "exited"
    /\ UNCHANGED <<trackvars, mc_call, running, nav_pc, vision_queue, command_queue, state,
                   last_line_pos, motor, nav_acts, nav_seen, nav_state0,
                   nav_after_stop>>

\* an operator puts a command on command_queue
OperatorCommand(command) ==
    /\ Len(command_queue) < MaxCommands
    /\ command_queue' = Append(command_queue, command)
    /\ UNCHANGED <<trackvars, mc_call, running, nav_pc, vis_pc, vision_queue, state,
                   last_line_pos, motor, nav_acts, nav_seen, nav_state0,
                   nav_after_stop>>

\* a loop test that stops the motors on the way out
NavLoopTest_stop_on_exit ==
    /\ nav_pc = "top"
    /\ IF running
       THEN /\ nav_pc' = "vision"
            /\ nav_acts' = <<>>
            /\ nav_seen' = <<>>
            /\ nav_state0' = "none"
            /\ UNCHANGED motor
       ELSE /\ nav_pc' = "exited"
            /\ nav_acts' = Append(nav_acts, Call("stop", 0))
            /\ motor' = stop(motor)
            /\ UNCHANGED <<nav_seen, nav_state0>>
    /\ NavStepCount
    /\ UNCHANGED <<trackvars, mc_call, running, vis_pc, vision_queue, command_queue, state,
                   last_line_pos>>

\* navigation_process: the loop test
NavLoopTest ==
    /\ nav_pc = "top"
    /\ IF running
       THEN /\ nav_pc' = "vision"
            /\ nav_acts' = <<>>
            /\ nav_seen' = <<>>
            /\ nav_state0' = "none"
       ELSE /\ nav_pc' = "exited"
            /\ UNCHANGED <<nav_acts, nav_seen, nav_state0>>
    /\ NavStepCount
    /\ UNCHANGED <<trackvars, mc_call, running, vis_pc, vision_queue, command_queue, state,
                   last_line_pos, motor>>

\* a receive that waits for a snapshot without a time limit
CanReceive_unbounded_wait == nav_pc = "vision" /\ vision_queue # <<>>

\* vision_queue.get(timeout=0.1) comes back, with a snapshot or, after the
\* wait, with the Empty exception
CanReceive == nav_pc = "vision"

\* a receive whose Empty exception ends the iteration
NavVision_empty_is_error(fault) ==
    /\ CanReceive
    /\ IF vision_queue # <<>>
       THEN /\ ReceiveSnapshot(Head(vision_queue), fault)
            /\ vision_queue' = Tail(vision_queue)
            /\ nav_pc' = "command"
       ELSE /\ nav_pc' = "top"
            /\ UNCHANGED <<vision_queue, state, last_line_pos, motor, nav_acts,
                           nav_seen, nav_state0>>
    /\ NavStepCount
    /\ UNCHANGED <<trackvars, mc_call, running, vis_pc, command_queue>>

\* navigation_process: vision_queue.get(timeout=0.1) and update_from_vision,
\* or the Empty exception when nothing arrived within the wait.  fault is
\* what goes wrong inside a sign maneuver, should this snapshot start one.
NavVision(fault) ==
    /\ CanReceive
    /\ IF vision_queue # <<>>
       THEN /\ ReceiveSnapshot(Head(vision_queue), fault)
            /\ vision_queue' = Tail(vision_queue)
       ELSE UNCHANGED <<vision_queue, state, last_line_pos, motor, nav_acts,
                        nav_seen, nav_state0>>
    /\ nav_pc' = "command"
    /\ NavStepCount
    /\ UNCHANGED <<trackvars, mc_call, running, vis_pc, command_queue>>

\* a command receive that takes the command put last
NavCommand_takes_newest ==
    /\ nav_pc = "command"
    /\ IF command_queue # <<>>
       THEN /\ SetContext(handle_command(NavContext, command_queue[Len(command_queue)]))
            /\ command_queue' = SubSeq(command_queue, 1, Len(command_queue) - 1)
       ELSE UNCHANGED <<command_queue, state, last_line_pos, motor, nav_acts>>
    /\ nav_pc' = "update"
    /\ NavStepCount
    /\ UNCHANGED <<trackvars, mc_call, running, vis_pc, vision_queue, nav_seen, nav_state0>>

\* navigation_process: command_queue.get_nowait() and handle_command, or
\* nothing when no command is pending
NavCommand ==
    /\ nav_pc = "command"
    /\ IF command_queue # <<>>
       THEN /\ SetContext(handle_command(NavContext, Head(command_queue)))
            /\ command_queue' = Tail(command_queue)
       ELSE UNCHANGED <<command_queue, state, last_line_pos, motor, nav_acts>>
    /\ nav_pc' = "update"
    /\ NavStepCount
    /\ UNCHANGED <<trackvars, mc_call, running, vis_pc, vision_queue, nav_seen, nav_state0>>

\* navigation_process: navigator.update(), then back to the loop test
NavUpdate ==
    /\ nav_pc = "update"
    /\ SetContext(update(NavContext))
    /\ nav_pc' = "top"
    /\ NavStepCount
    /\ UNCHANGED <<trackvars, mc_call, running, vis_pc, vision_queue, command_queue,
                   nav_seen, nav_state0>>

Produce ==
    \E frame_ok \in BOOLEAN, snapshot \in QueuedSnapshots :
        VisionIterate(frame_ok, snapshot)

Operate == \E command \in QueuedCommands : OperatorCommand(command)

Consume == \E fault \in Faults : NavVision(fault)

NextNav ==
    \/ Produce
    \/ VisionExit
    \/ Operate
    \/ NavLoopTest
    \/ Consume
    \/ NavCommand
    \/ NavUpdate
    \/ Shutdown

SpecNav == Init /\ [][NextNav]_vars

(***************************************************************************)
(* The two processes with the sign records SignDetector.detect builds.     *)
(* detect appends one record per contour of more than 100 pixels, colour   *)
(* by colour in the order of self.colors, with the keys 'color',           *)
(* 'position', 'size' and 'confidence'; no record has a 'class' key, which *)
(* handle_sign reads as "missing".                                         *)
(***************************************************************************)
SignColors == {"red", "blue", "yellow"}

DetectedSign(color) == [class |-> "missing", color |-> color]

\* what detect returns: no contour, one red contour, a blue and a yellow one
DetectedSignLists ==
    { <<>>, <<DetectedSign("red")>>, <<DetectedSign("blue"), DetectedSign("yellow")>> }

DetectedSnapshots ==
    { [line_info |-> li, signs |-> sl] :
        li \in { [detected |-> FALSE, position |-> NoPos],
                 [detected |-> TRUE, position |-> 160] },
        sl \in DetectedSignLists }

ProduceDetected ==
    \E frame_ok \in BOOLEAN, snapshot \in DetectedSnapshots :
        VisionIterate(frame_ok, snapshot)

NextVision ==
    \/ ProduceDetected
    \/ VisionExit
    \/ NavLoopTest
    \/ Consume
    \/ NavCommand
    \/ NavUpdate
    \/ Shutdown

SpecVision == Init /\ [][NextVision]_vars

(***************************************************************************)
(* navigation_process taken alone: what its two receives return is an      *)
(* input of each iteration, in place of the queues and their producers.    *)
(***************************************************************************)
\* vision_queue.get(timeout=0.1) returns snapshot (arrived) or raises Empty
ConsumerVision(arrived, snapshot, fault) ==
    /\ nav_pc = "vision"
    /\ IF arrived
       THEN ReceiveSnapshot(snapshot, fault)
       ELSE UNCHANGED <<state, last_line_pos, motor, nav_acts, nav_seen, nav_state0>>
    /\ nav_pc' = "command"
    /\ NavStepCount
    /\ UNCHANGED <<trackvars, mc_call, running, vis_pc, vision_queue, command_queue>>

\* command_queue.get_nowait() returns command (pending) or raises Empty
ConsumerCommand(pending, command) ==
    /\ nav_pc = "command"
    /\ IF pending
       THEN SetContext(handle_command(NavContext, command))
       ELSE UNCHANGED <<state, last_line_pos, motor, nav_acts>>
    /\ nav_pc' = "update"
    /\ NavStepCount
    /\ UNCHANGED <<trackvars, mc_call, running, vis_pc, vision_queue, command_queue,
                   nav_seen, nav_state0>>

Receive ==
    \E arrived \in BOOLEAN, snapshot \in Snapshots, fault \in Faults :
        ConsumerVision(arrived, snapshot, fault)

Command == \E pending \in BOOLEAN, command \in Commands : ConsumerCommand(pending, command)

NextConsumer ==
    \/ NavLoopTest
    \/ Receive
    \/ Command
    \/ NavUpdate
    \/ Shutdown

SpecConsumer == Init /\ [][NextConsumer]_vars

\* navigation_process moves on to its next statement: the loop test, the
\* command receive and the update always can, the snapshot receive when it
\* comes back
NavAdvance ==
    /\ nav_pc \in {"top", "command", "update"} \/ CanReceive
    /\ nav_pc' \in {"top", "vision", "command", "update", "exited"} \ {nav_pc}

(***************************************************************************)
(* The MotorController taken alone: any sequence of calls of its four      *)
(* methods, with any argument, on a px that may fail during a call.        *)
(***************************************************************************)
\* speeds and angles asked for, inside and outside the limits
SpeedArgs == {-100, -50, -3, 0, 4, 30, 50, 51}

AngleArgs == {-90, -31, -30, 0, 12, 30, 90}

\* the call op(arg) ended as out says
MotorCall(op, arg, px, out) ==
    /\ ~mc_call.hung
    /\ motor' = out.mc
    /\ mc_call' = [op |-> op, arg |-> arg, px |-> px, logged |-> out.logged,
                   emergency |-> out.emergency, raised |-> out.raised,
                   hung |-> out.hung]
    /\ UNCHANGED <<trackvars, running, nav_pc, vis_pc, vision_queue, command_queue,
                   state, last_line_pos, nav_acts, nav_seen, nav_state0,
                   nav_after_stop>>

CallSetSpeed ==
    \E speed \in SpeedArgs, px \in PxFaults :
        MotorCall("set_speed", speed, px, call_set_speed(motor, Q(speed), px))

CallSetSteering ==
    \E angle \in AngleArgs, px \in PxFaults :
        MotorCall("set_steering", angle, px, call_set_steering(motor, angle, px))

CallStop == \E px \in PxFaults : MotorCall("stop", 0, px, call_stop(motor, px))

CallEmergencyStop ==
    \E px \in PxFaults : MotorCall("emergency_stop", 0, px, call_emergency_stop(motor, px))

NextMotor ==
    \/ CallSetSpeed
    \/ CallSetSteering
    \/ CallStop
    \/ CallEmergencyStop

SpecMotor == Init /\ [][NextMotor]_vars

\* each process keeps executing its next statement
FairSpecNav ==
    /\ SpecNav
    /\ WF_nav_pc(NavAdvance)
    /\ WF_vars(Produce \/ VisionExit)

(***************************************************************************)
(* Properties of the line-tracking loop.                                   *)
(***************************************************************************)
\* a line_track call has taken place
Ticked == tick_band # "none"

\* the distance of the latest tick passed avoid_obstacles' validity test:
\* the read returned and the rounded value lies in [0, 1000]
TickValid ==
    /\ Ticked
    /\ tick_rd.ok
    /\ tick_distance >= 0
    /\ tick_distance <= Cm(SanityCeiling)

\* the band the two thresholds give for a valid distance
ThresholdBand(d) ==
    IF d >= Cm(SafeDistance) THEN "Safe"
    ELSE IF d >= Cm(DangerDistance) THEN "Caution"
    ELSE "Danger"

\* the directive each band stands for
BandDirective(band) ==
    CASE band = "Safe"    -> [by |-> "avoid", angle |-> 0, speed |-> 40]
      [] band = "Caution" -> [by |-> "avoid", angle |-> 30, speed |-> 40]
      [] band = "Danger"  -> [by |-> "avoid", angle |-> -30, speed |-> -40]

C4_FailOpen ==
    (Ticked /\ (~tick_rd.ok \/ tick_distance < 0 \/ tick_distance > Cm(SanityCeiling))) =>
        /\ ByArbiter(tick_cmds) = <<>>
        /\ tick_ret >= Cm(SafeDistance)
        /\ tick_sampled
        /\ (pc = "idle" /\ ~tick_recovered /\ tick_gm \in {"forward", "left", "right"}
                => /\ Len(tick_cmds) = 1
                   /\ tick_cmds[1].by = "line"
                   /\ last_line_state = tick_gm)
        /\ (tick_gm = "stop" => pc = "recover" \/ tick_recovered)

\* C4 witness: the read raised and the tick followed the line
C4_Witness ==
    /\ Ticked
    /\ ~tick_rd.ok
    /\ tick_sampled
    /\ tick_gm = "right"
    /\ tick_cmds = <<[by |-> "line", angle |-> -20, speed |-> 10]>>

\* C5: the arbiter's directive depends on the band alone: steering 0 forward
\* at 40 for Safe, steering +30 forward at 40 for Caution, steering -30
\* backward at 40 for Danger; and a Safe-band read repeated in the next tick
\* yields the directive of the tick before.
C5_DirectiveByBand ==
    TickValid =>
        /\ ByArbiter(tick_cmds) = <<BandDirective(ThresholdBand(tick_distance))>>
        /\ (tick_repeat /\ tick_distance >= Cm(SafeDistance)
                => ByArbiter(tick_cmds) = prev_avoid)

\* C5 witness: the same Safe read in two successive ticks
C5_Witness ==
    /\ TickValid
    /\ tick_repeat
    /\ tick_distance = Cm(100)
    /\ prev_avoid = <<[by |-> "avoid", angle |-> 0, speed |-> 40]>>
    /\ ByArbiter(tick_cmds) = prev_avoid

\* C6: at most one motor directive (one steering-and-speed pair) is issued
\* in a control tick.
C6_AtMostOneDirective == Len(tick_cmds) <= 1

\* C7: get_status is total over the 8 readings, returning one of forward,
\* left, right, stop, and it returns stop exactly for [0,0,0].
C7_ClassifierTotal ==
    tick_sampled =>
        /\ tick_gm \in {"forward", "left", "right", "stop"}
        /\ (tick_gm = "stop" <=> tick_reading = <<0, 0, 0>>)

\* C7 witness: the reading [0,0,0] classified as stop
C7_Witness ==
    /\ tick_sampled
    /\ tick_reading = <<0, 0, 0>>
    /\ tick_gm = "stop"

\* C8: priority center > left > right, and the correction direction is
\* returned: center active gives forward whatever the side bits; otherwise
\* left active (also [1,0,1]) gives right; otherwise right active gives left.
C8_ClassifierPriority ==
    tick_sampled =>
        /\ (tick_reading[2] = 1 => tick_gm = "forward")
        /\ (tick_reading[2] = 0 /\ tick_reading[1] = 1 => tick_gm = "right")
        /\ (tick_reading[2] = 0 /\ tick_reading[1] = 0 /\ tick_reading[3] = 1
                => tick_gm = "left")

\* C8 witness: both side sensors active, centre inactive
C8_Witness ==
    /\ tick_sampled
    /\ tick_reading = <<1, 0, 1>>
    /\ tick_gm = "right"

\* C9: outHandle returns only after a resampled reading is classified as
\* something other than stop.
C9_RecoveryReturnsOnLine == tick_recovered => tick_gm # "stop"

\* C10: once the running flag is false, a recovery that is polling comes to
\* an end.
C10_RecoveryHeedsShutdown == (pc = "recover" /\ ~running) ~> (pc # "recover")

(***************************************************************************)
(* Properties of the navigation process.                                   *)
(***************************************************************************)
\* C2: within an iteration of navigation_process, an obstacle evaluation
\* comes before any follow_line or handle_sign call of that iteration.
C2_ObstacleCheckedFirst ==
    \A i \in 1..Len(nav_acts) :
        nav_acts[i].call \in {"follow_line", "handle_sign"} =>
            \E j \in 1..(i - 1) : nav_acts[j].call = "avoid_obstacles"

(***************************************************************************)
(* Properties of the Navigator's sign reactions.                           *)
(***************************************************************************)
\* the call name was made in the current navigation iteration
Called(name) == \E i \in 1..Len(nav_acts) : nav_acts[i].call = name

\* a sign maneuver of the current iteration raised: handle_stop_sign or
\* handle_turn_sign went through its except branch
ManeuverFault == Called("error_stop_sign") \/ Called("error_turn_sign")

\* C11: once handle_sign has returned without a maneuver fault, the state it
\* leaves behind is SUIVRE_LIGNE and not TRAITER_PANNEAU, whatever the class
\* of the sign record, a class other than STOP/GAUCHE/DROITE included.
C11_SignReactionCompletes ==
    (Called("handle_sign") /\ ~ManeuverFault) => state = "SUIVRE_LIGNE"

\* C12: when the stop maneuver of a stop-sign reaction fails (handle_stop_sign
\* goes through its except branch), the state is SUIVRE_LIGNE when handle_sign
\* has returned.
C12_StopFaultReturnsToLine ==
    (Called("handle_sign") /\ Called("error_stop_sign")) => state = "SUIVRE_LIGNE"

\* C13: when a step of a turn-sign maneuver raises (handle_turn_sign goes
\* through its except branch), a motor stop is issued after the failure and
\* the state is SUIVRE_LIGNE when handle_sign has returned.
C13_TurnFaultStopsAndReturns ==
    (Called("handle_sign") /\ Called("error_turn_sign")) =>
        /\ \E i, j \in 1..Len(nav_acts) :
              /\ i < j
              /\ nav_acts[i].call = "error_turn_sign"
              /\ nav_acts[j].call = "stop"
        /\ state = "SUIVRE_LIGNE"

\* the number of calls name in the current navigation iteration
Count(name) == Cardinality({ i \in 1..Len(nav_acts) : nav_acts[i].call = name })

\* a snapshot with a non-empty sign list was received in state SUIVRE_LIGNE
SignsSeenOnLine ==
    /\ nav_seen # <<>>
    /\ nav_seen[1].signs # <<>>
    /\ nav_state0 = "SUIVRE_LIGNE"

\* the maneuver calls that answer the sign class cls, as <<stop sign
\* reactions, turn reactions, turn angle>>
ReactionTo(cls) ==
    CASE cls = "STOP"   -> <<1, 0, 0>>
      [] cls = "GAUCHE" -> <<0, 1, -TURN_ANGLE>>
      [] cls = "DROITE" -> <<0, 1, TURN_ANGLE>>
      [] OTHER          -> <<0, 0, 0>>

\* the iteration entered TRAITER_PANNEAU once, reacted to signs[0] and to no
\* other sign, and did not follow the line
FirstSignOnly ==
    LET r == ReactionTo(nav_seen[1].signs[1].class) IN
    /\ Count("handle_sign") = 1
    /\ Count("TRAITER_PANNEAU") = 1
    /\ Count("handle_stop_sign") = r[1]
    /\ Count("handle_turn_sign") = r[2]
    /\ \A i \in 1..Len(nav_acts) :
          nav_acts[i].call = "handle_turn_sign" => nav_acts[i].arg = r[3]
    /\ ~Called("follow_line")

\* C14: from SUIVRE_LIGNE, a snapshot with a non-empty sign list moves the
\* state to TRAITER_PANNEAU exactly once however many signs it holds; only
\* signs[0] is acted on, no line-following directive is issued in that
\* iteration, and once the reaction is over (no maneuver fault) the state is
\* SUIVRE_LIGNE again.
C14_OneSignReaction ==
    SignsSeenOnLine =>
        /\ FirstSignOnly
        /\ (~ManeuverFault => state = "SUIVRE_LIGNE")

\* the part of C14 that precedes the return to SUIVRE_LIGNE
C14_FirstSignPart == SignsSeenOnLine => FirstSignOnly

\* the place of the first call name in the current iteration, 0 for none
First(name) ==
    IF Called(name)
    THEN CHOOSE i \in 1..Len(nav_acts) :
            /\ nav_acts[i].call = name
            /\ \A j \in 1..(i - 1) : nav_acts[j].call # name
    ELSE 0

\* a snapshot whose first sign is a STOP sign was received in state
\* SUIVRE_LIGNE and the maneuver did not raise
StopSignReaction ==
    /\ SignsSeenOnLine
    /\ nav_seen[1].signs[1].class = "STOP"
    /\ ~ManeuverFault

\* C15: stop-sign reaction.  With state SUIVRE_LIGNE and a first sign of class
\* STOP, the state becomes TRAITER_PANNEAU, then motor_controller.stop() is
\* called, then the dwell of STOP_DWELL seconds takes place, and only then is
\* the state set back to SUIVRE_LIGNE.
C15_StopThenDwellThenLine ==
    StopSignReaction =>
        /\ 0 < First("TRAITER_PANNEAU")
        /\ First("TRAITER_PANNEAU") < First("stop")
        /\ First("stop") < First("sleep")
        /\ nav_acts[First("sleep")].arg = STOP_DWELL
        /\ First("sleep") < First("SUIVRE_LIGNE")
        /\ state = "SUIVRE_LIGNE"

\* C15 witness: the reaction to a STOP sign has just ended
C15_Witness ==
    /\ StopSignReaction
    /\ nav_pc = "command"
    /\ Called("stop")
    /\ Called("sleep")
    /\ state = "SUIVRE_LIGNE"

(***************************************************************************)
(* Properties of the MotorController.                                      *)
(***************************************************************************)
\* the place of the latest call on the motor controller in the current
\* iteration, 0 for none
LastMotorCall ==
    LET on == { i \in 1..Len(nav_acts) :
                  nav_acts[i].call \in {"set_speed", "set_steering", "stop"} }
    IN  IF on = {} THEN 0 ELSE CHOOSE i \in on : \A j \in on : j <= i

\* C16: after MotorController.stop() has returned, the robot is fully
\* stopped: the last speed commanded to each of the two motor channels is 0,
\* current_speed is 0 and current_steering is 0.
C16_StopMeansStopped ==
    (LastMotorCall # 0 /\ nav_acts[LastMotorCall].call = "stop") =>
        /\ motor.m1.n = 0
        /\ motor.m2.n = 0
        /\ motor.current_speed.n = 0
        /\ motor.current_steering = 0

(***************************************************************************)
(* Properties of the two processes and of the running flag.                *)
(***************************************************************************)
\* the steps of one iteration of navigation_process: the loop test, the
\* snapshot receive, the command receive, the navigator update
IterationSteps == 4

C18_NoDirectiveAfterObservation ==
    [][nav_pc' = "exited" =>
          /\ nav_acts' = nav_acts
          /\ motor'.current_speed = motor.current_speed
          /\ motor'.current_steering = motor.current_steering
          /\ (running' = running => motor' = motor)]_vars

\* C18 witness: the flag was cleared in the middle of an iteration that
\* called the motor controller, and navigation_process has left its loop
C18_Witness ==
    /\ nav_pc = "exited"
    /\ nav_after_stop > 1
    /\ LastMotorCall # 0

\* C19: the running flag is true at startup; a step that writes it is a step
\* of the shutdown path (no process moves in it) taking it from true to
\* false; once false it is never true again.
C19_FlagClearedOnce ==
    /\ running = TRUE
    /\ [][/\ (running' # running) =>
                /\ running = TRUE
                /\ running' = FALSE
                /\ UNCHANGED <<trackvars, mc_call, nav_pc, vis_pc, vision_queue,
                               command_queue, state, last_line_pos, nav_acts>>
          /\ (running = FALSE => running' = FALSE)]_vars

\* C19 witness: the flag has been cleared between two iterations and both
\* processes have run on to their exit
C19_Witness ==
    /\ running = FALSE
    /\ nav_pc = "exited"
    /\ vis_pc = "exited"
    /\ nav_after_stop = 1

\* C20: the snapshot channel is bounded: the number of snapshots buffered in
\* vision_queue never exceeds one.
C20_AtMostOneSnapshotBuffered == Len(vision_queue) <= 1

\* C21: the snapshot navigation_process receives is the latest one
\* vision_process has put so far: at the receive no snapshot put after it is
\* left waiting in vision_queue.
C21_ReceivesLatestSnapshot ==
    [][(CanReceive /\ vision_queue # <<>> /\ nav_pc' = "command")
          => vision_queue' = <<>>]_vars

(***************************************************************************)
(* Properties of external commands.                                        *)
(***************************************************************************)
\* C22: handling an external command (speed, turn or stop) never changes the
\* navigation state: the state after the command step of an iteration is
\* the state before it.
C22_CommandKeepsState ==
    [][(nav_pc = "command" /\ nav_pc' = "update") => state' = state]_vars

\* C22 witness: a stop command was handled while the navigator was in
\* TRAITER_PANNEAU
C22_Witness ==
    /\ nav_pc = "update"
    /\ Called("handle_command")
    /\ nav_acts[Len(nav_acts)].call = "stop"
    /\ state = "TRAITER_PANNEAU"

\* the call on the motor controller that handle_command makes for a command
CommandCall(command) ==
    CASE command.type = "speed" -> Call("set_speed", command.value)
      [] command.type = "turn"  -> Call("set_steering", command.value)
      [] command.type = "stop"  -> Call("stop", 0)

\* C23: in each iteration of navigation_process at most one external command
\* is taken from command_queue and applied; it is the one enqueued first and
\* the others stay queued in their order, whatever the navigation state is;
\* with no command pending the command step is taken all the same and calls
\* nothing.
C23_OneCommandInOrder ==
    /\ [](Count("handle_command") <= 1)
    /\ []((nav_pc = "command" /\ command_queue = <<>>) => ENABLED NavCommand)
    /\ [][(nav_pc = "command" /\ nav_pc' = "update") =>
             IF command_queue # <<>>
             THEN /\ command_queue' = Tail(command_queue)
                  /\ nav_acts' = nav_acts \o <<Call("handle_command", 0),
                                              CommandCall(Head(command_queue))>>
             ELSE /\ command_queue' = <<>>
                  /\ nav_acts' = nav_acts]_vars

\* C23 witness: with two commands queued, the turn command enqueued first was
\* applied in TRAITER_PANNEAU and the speed command is still queued
C23_Witness ==
    /\ nav_pc = "update"
    /\ state = "TRAITER_PANNEAU"
    /\ nav_acts[Len(nav_acts)] = Call("set_steering", 45)
    /\ command_queue = <<[type |-> "speed", value |-> 60]>>

\* C24: no sequence of snapshots, signs and external commands puts the
\* navigation state in ARRET: from SUIVRE_LIGNE the state is only ever
\* SUIVRE_LIGNE or TRAITER_PANNEAU.
C24_NeverStopped ==
    /\ state # "ARRET"
    /\ state \in {"SUIVRE_LIGNE", "TRAITER_PANNEAU"}

\* C24 witness: an iteration that received a STOP sign and then handled a
\* stop command
C24_Witness ==
    /\ nav_pc = "top"
    /\ nav_seen # <<>>
    /\ nav_seen[1].signs = <<Sign("STOP")>>
    /\ Called("handle_stop_sign")
    /\ Called("handle_command")
    /\ nav_acts[Len(nav_acts) - 1].call = "stop"
    /\ state = "SUIVRE_LIGNE"

\* C25: after any sequence of set_speed, set_steering, stop and
\* emergency_stop calls, current_speed lies in [-max_speed, max_speed] and
\* current_steering in [-max_steering, max_steering]; a request outside the
\* limits that the call carried out is clamped to the limit.
C25_SpeedAndSteeringInLimits ==
    /\ ~QAbsGt(motor.current_speed, MAX_SPEED)
    /\ motor.current_steering >= -MAX_STEERING
    /\ motor.current_steering <= MAX_STEERING
    /\ (mc_call.op = "set_speed" /\ ~mc_call.logged =>
            /\ (mc_call.arg > MAX_SPEED => motor.current_speed = Q(MAX_SPEED))
            /\ (mc_call.arg < -MAX_SPEED => motor.current_speed = Q(-MAX_SPEED))
            /\ (mc_call.arg \in (-MAX_SPEED)..MAX_SPEED
                    => motor.current_speed = Q(mc_call.arg)))
    /\ (mc_call.op = "set_steering" /\ mc_call.px # "set_dir_servo_angle" =>
            /\ (mc_call.arg > MAX_STEERING => motor.current_steering = MAX_STEERING)
            /\ (mc_call.arg < -MAX_STEERING => motor.current_steering = -MAX_STEERING)
            /\ (mc_call.arg \in (-MAX_STEERING)..MAX_STEERING
                    => motor.current_steering = mc_call.arg))

\* C25 witness: the turn-sign angle 90 asked of a controller running at the
\* speed limit
C25_Witness ==
    /\ mc_call.op = "set_steering"
    /\ mc_call.arg = 90
    /\ mc_call.px = "ok"
    /\ motor.current_steering = MAX_STEERING
    /\ motor.servo = MAX_STEERING
    /\ motor.current_speed = Q(MAX_SPEED)

\* C26: when a px call raises inside set_speed, set_steering or stop, the
\* controller's emergency_stop() is run and the failure reaches the caller
\* as an exception instead of being absorbed.
C26_ActuationFaultSurfaced ==
    (mc_call.op \in {"set_speed", "set_steering", "stop"} /\ mc_call.logged) =>
        /\ mc_call.emergency
        /\ mc_call.raised


\* the latest tick was a whole line_track call that saw a Safe distance and
\* classified the given line status (no recovery polling in between)
SafeTickOn(reading) ==
    /\ TickValid
    /\ tick_distance >= Cm(SafeDistance)
    /\ tick_sampled
    /\ pc = "idle"
    /\ ~tick_recovered
    /\ tick_reading = reading

(***************************************************************************)
(* C27: with a reading of [1,0,0] (left sensor active) and a Safe          *)
(* distance, the last directive of the line_track tick is forward at the   *)
(* line-track speed with a positive steering angle, positive being the     *)
(* right-turn direction where negative angles turn left.                   *)
(***************************************************************************)
C27_LeftSensorSteersRight ==
    SafeTickOn(<<1, 0, 0>>) =>
        /\ tick_cmds # <<>>
        /\ tick_cmds[Len(tick_cmds)].speed = LINE_TRACK_SPEED
        /\ tick_cmds[Len(tick_cmds)].angle > 0


(***************************************************************************)
(* C28: for every reading with center = 1 and every Safe distance, the     *)
(* directive in force at the end of the line_track tick is forward at the  *)
(* line-track speed (10) with steering 0, and last_line_state is 'forward' *)
(* on return.                                                              *)
(***************************************************************************)
C28_CenterDrivesStraight ==
    \A reading \in Readings :
        (reading[2] = 1 /\ SafeTickOn(reading)) =>
            /\ pc = "idle"
            /\ tick_cmds # <<>>
            /\ tick_cmds[Len(tick_cmds)] = Directive("line", 0, 10)
            /\ last_line_state = "forward"

C28_Witness ==
    /\ SafeTickOn(<<1, 1, 0>>)
    /\ tick_distance = Cm(SafeDistance)
    /\ tick_entry_last = "left"
    /\ tick_cmds[Len(tick_cmds)] = Directive("line", 0, 10)
    /\ last_line_state = "forward"


\* the directives of a tick that outHandle issued
ByRecovery(cmds) == SelectSeq(cmds, LAMBDA c : c.by = "recover")

\* the latest tick went into outHandle (it is polling, or has left the loop)
EnteredRecovery == tick_sampled /\ (pc = "recover" \/ tick_recovered)

\* -1, 0 or 1
Sign3(n) == IF n > 0 THEN 1 ELSE IF n < 0 THEN -1 ELSE 0

(***************************************************************************)
(* C30: on entering line recovery, if the last line state was a left- or   *)
(* right-correction state the robot is steered to the extreme of the sign  *)
(* opposite to the steering that state uses in line following and driven   *)
(* backward; if the last state was Forward no steering or speed directive  *)
(* is issued before polling starts.                                        *)
(***************************************************************************)
C30_RecoveryOpposesLastCorrection ==
    EnteredRecovery =>
        /\ last_line_state = tick_entry_last
        /\ (tick_entry_last \in {"left", "right"} =>
                /\ Len(ByRecovery(tick_cmds)) = 1
                /\ LET d == ByRecovery(tick_cmds)[1]
                       f == follow_directive(tick_entry_last)[1]
                   IN  /\ d = tick_cmds[Len(tick_cmds)]
                       /\ Abs(d.angle) = EXTREME_ANGLE
                       /\ Sign3(d.angle) = -Sign3(f.angle)
                       /\ f.angle # 0
                       /\ d.speed < 0)
        /\ (tick_entry_last = "forward" => ByRecovery(tick_cmds) = <<>>)

C30_Witness ==
    /\ pc = "recover"
    /\ tick_sampled
    /\ tick_entry_last = "right"
    /\ tick_reading = <<0, 0, 0>>
    /\ tick_cmds[Len(tick_cmds)] = Directive("recover", 30, -10)


\* a snapshot whose first sign is a turn sign was received in state
\* SUIVRE_LIGNE and the maneuver did not raise
TurnSignReaction ==
    /\ SignsSeenOnLine
    /\ nav_seen[1].signs[1].class \in {"GAUCHE", "DROITE"}
    /\ ~ManeuverFault

\* the position in the call log of the first call of name with argument arg
\* after position i, 0 when there is none
NextAfter(i, name, arg) ==
    LET later == { j \in (i + 1)..Len(nav_acts) : nav_acts[j] = Call(name, arg) }
    IN  IF later = {} THEN 0
        ELSE CHOOSE j \in later : \A k \in later : j <= k

(***************************************************************************)
(* C29: turn-sign reaction without fault.  Speed is first set to the       *)
(* navigator's minimum speed, then a steering angle is applied whose sign  *)
(* follows the sign class (negative for GAUCHE, positive for DROITE), held *)
(* for the turn duration, then steering is reset to 0 and the state        *)
(* becomes SUIVRE_LIGNE; on return current_steering is 0.                  *)
(***************************************************************************)
C29_TurnThenHoldThenReset ==
    TurnSignReaction =>
        LET cls    == nav_seen[1].signs[1].class
            slow   == First("set_speed")
            turn   == First("set_steering")
            hold   == First("sleep")
            reset  == NextAfter(hold, "set_steering", 0)
            online == First("SUIVRE_LIGNE")
        IN  /\ 0 < First("handle_turn_sign")
            /\ First("handle_turn_sign") < slow
            /\ nav_acts[slow].arg = MIN_SPEED
            /\ slow < turn
            /\ Sign3(ClampInt(nav_acts[turn].arg, MAX_STEERING))
                   = (IF cls = "GAUCHE" THEN -1 ELSE 1)
            /\ turn < hold
            /\ nav_acts[hold].arg = TURN_HOLD
            /\ hold < reset
            /\ reset < online
            /\ (nav_pc = "command" =>
                    /\ state = "SUIVRE_LIGNE"
                    /\ motor.current_steering = 0
                    /\ motor.servo = 0
                    /\ motor.current_speed = Q(MIN_SPEED))

C29_Witness ==
    /\ TurnSignReaction
    /\ nav_seen[1].signs[1].class = "GAUCHE"
    /\ nav_pc = "command"
    /\ nav_acts[First("set_steering")] = Call("set_steering", -90)
    /\ Called("sleep")
    /\ motor.current_steering = 0
    /\ state = "SUIVRE_LIGNE"


\* the calls by which the navigator reacts to a snapshot
VisionCalls ==
    {"update_from_vision", "follow_line", "handle_sign", "handle_stop_sign",
     "handle_turn_sign", "TRAITER_PANNEAU", "sleep"}

(***************************************************************************)
(* C31: an iteration of navigation_process in which no snapshot arrives    *)
(* within the bounded wait is not an error.  The receive comes back (the   *)
(* process does not block), the iteration goes on to the command receive   *)
(* and to navigator.update(), and the receive issues no line-following or  *)
(* sign directive: the call log, the motors, the state and last_line_pos   *)
(* stay as they are, and no vision call appears in the iteration's log.    *)
(***************************************************************************)
C31_EmptyReceiveIsNoError ==
    /\ []((nav_pc = "vision" /\ vision_queue = <<>>) => ENABLED Consume)
    /\ [][(nav_pc = "vision" /\ vision_queue = <<>> /\ nav_pc' # "vision") =>
             /\ nav_pc' = "command"
             /\ nav_acts' = nav_acts
             /\ motor' = motor
             /\ state' = state
             /\ last_line_pos' = last_line_pos
             /\ nav_seen' = <<>>]_vars
    /\ [][(nav_pc = "command" /\ nav_pc' # "command") => nav_pc' = "update"]_vars
    /\ [][(nav_pc = "update" /\ nav_pc' # "update") =>
             /\ nav_pc' = "top"
             /\ \E i \in 1..Len(nav_acts') : nav_acts'[i] = Call("update", 0)]_vars
    /\ [](nav_seen = <<>> =>
             \A i \in 1..Len(nav_acts) : nav_acts[i].call \notin VisionCalls)

\* C31 witness: an iteration whose snapshot receive timed out has handled a
\* queued command and run navigator.update()
C31_Witness ==
    /\ nav_pc = "top"
    /\ nav_seen = <<>>
    /\ vision_queue = <<>>
    /\ nav_acts = <<Call("handle_command", 0), Call("set_steering", 45),
                    Call("update", 0)>>


\* the classes handle_sign reacts to
SignClasses == {"STOP", "GAUCHE", "DROITE"}

(***************************************************************************)
(* C32: every sign record that vision_process places in a snapshot carries *)
(* a class among STOP / GAUCHE / DROITE, so that consuming a produced       *)
(* snapshot with a non-empty sign list in state SUIVRE_LIGNE always         *)
(* executes a stop or a turn reaction on the motors.                        *)
(***************************************************************************)
C32_ProducedSignsReact ==
    /\ \A i \in 1..Len(vision_queue) :
          \A j \in 1..Len(vision_queue[i].signs) :
              vision_queue[i].signs[j].class \in SignClasses
    /\ (SignsSeenOnLine =>
            /\ Called("handle_stop_sign") \/ Called("handle_turn_sign")
            /\ Called("stop") \/ Called("set_steering"))


(***************************************************************************)
(* C33: MotorController.stop() terminates from every reachable             *)
(* current_speed in [-MAX_SPEED, MAX_SPEED]: the ramp loop reduces         *)
(* |current_speed| until it is at most 5, and the call still terminates    *)
(* when an underlying motor call fails during the ramp.                    *)
(***************************************************************************)
C33_StopTerminates ==
    mc_call.op = "stop" =>
        /\ ~mc_call.hung
        /\ ~QAbsGt(motor.current_speed, RAMP_FLOOR)


\* the iteration received a snapshot and then a command, and the parent has
\* not begun its shutdown (whose cleanup() acts on the same motors)
BothConsumed ==
    /\ running
    /\ nav_pc \in {"update", "top"}
    /\ nav_seen # <<>>
    /\ Called("handle_command")

(***************************************************************************)
(* C34: in an iteration of navigation_process where both a snapshot and an *)
(* external command are consumed, the command is applied after every call  *)
(* the snapshot led to, so the command's speed, steering or stop is what   *)
(* the motors are left with at the end of the iteration; the               *)
(* navigator.update() that follows makes no motor call (the property is    *)
(* stated both before and after it, nav_pc "update" and "top").            *)
(***************************************************************************)
C34_CommandAfterSnapshot ==
    BothConsumed =>
        LET h   == First("handle_command")
            cmd == nav_acts[h + 1]
        IN  /\ nav_acts[1].call = "update_from_vision"
            /\ \A i \in 1..Len(nav_acts) :
                  nav_acts[i].call \in VisionCalls => i < h
            /\ Len(nav_acts) <= h + 2
            /\ (nav_pc = "top" => nav_acts = SubSeq(nav_acts, 1, h + 1)
                                                \o <<Call("update", 0)>>)
            /\ cmd.call \in {"set_speed", "set_steering", "stop"}
            /\ (cmd.call = "set_speed" =>
                    motor.current_speed = ClampQ(Q(cmd.arg), MAX_SPEED))
            /\ (cmd.call = "set_steering" =>
                    /\ motor.current_steering = ClampInt(cmd.arg, MAX_STEERING)
                    /\ motor.servo = ClampInt(cmd.arg, MAX_STEERING))
            /\ (cmd.call = "stop" =>
                    /\ motor.current_speed = Q(0)
                    /\ motor.current_steering = 0
                    /\ motor.m1 = ChanZero
                    /\ motor.m2 = ChanZero)


\* the line states other than 'stop'
OnLineStates == {"forward", "left", "right"}

(***************************************************************************)
(* C35: across any sequence of line_track ticks starting from              *)
(* last_line_state = 'forward', last_line_state is always one of forward / *)
(* left / right and never 'stop'; it changes only in a tick with a Safe    *)
(* distance (the distance avoid_obstacles hands back is at least           *)
(* SafeDistance) and a reading other than [0,0,0], where it becomes the    *)
(* classified state.                                                       *)
(***************************************************************************)
C35_LastLineStateOnLine ==
    /\ [](last_line_state \in OnLineStates)
    /\ [](last_line_state # "stop")
    /\ [][last_line_state' # last_line_state =>
             /\ pc = "idle"
             /\ pc' = "idle"
             /\ tick_ret' >= Cm(SafeDistance)
             /\ tick_band' \notin {"Caution", "Danger"}
             /\ tick_reading' # <<0, 0, 0>>
             /\ tick_gm' \in OnLineStates
             /\ last_line_state' = tick_gm']_vars
    /\ []((Ticked /\ tick_sampled /\ pc = "idle" /\ ~tick_recovered
              /\ tick_reading # <<0, 0, 0>>)
            => last_line_state = tick_gm)

\* C35 witness: a Safe tick on [0,0,1] took last_line_state from 'right' to
\* 'left'
C35_Witness ==
    /\ TickValid
    /\ tick_band = "Safe"
    /\ tick_reading = <<0, 0, 1>>
    /\ tick_entry_last = "right"
    /\ last_line_state = "left"


\* width of the frames CameraModule.get_frame captures ("--width", "320")
CAPTURE_WIDTH == 320

\* the iteration received a snapshot with a detected line and followed it
LineFollowed ==
    /\ nav_seen # <<>>
    /\ nav_seen[1].line_info.detected
    /\ Called("follow_line")

(***************************************************************************)
(* C36: in Navigator.follow_line fed with positions from frames of the     *)
(* width the camera captures, a line detected at the horizontal centre of  *)
(* the captured frame yields steering 0, and positions left and right of   *)
(* that centre yield steering angles of opposite signs (follow_line steers *)
(* by -error, so positive left of the centre and negative right of it).    *)
(***************************************************************************)
C36_SteeringCentredOnFrame ==
    LineFollowed =>
        LET x      == nav_seen[1].line_info.position
            centre == CAPTURE_WIDTH \div 2
            steer  == nav_acts[First("follow_line") + 1]
        IN  /\ steer.call = "set_steering"
            /\ Sign3(steer.arg) = Sign3(centre - x)

=============================================================================
